---- MODULE Spec2Model ----
(***************************************************************************)
(* StoreScheduler: the constraint-model construction of app/solver.py.     *)
(* main() reads the tables, allocates the shift-variable grid, lets        *)
(* setup_constraints add the enabled constraint groups to the CP model,    *)
(* calls the solver once and logs the schedule.  The CP-SAT solver is an   *)
(* external library: it is modelled by its contract, returning any         *)
(* assignment of the model's boolean variables that satisfies every        *)
(* constraint of the model, or INFEASIBLE when there is none.              *)
(***************************************************************************)
EXTENDS Integers, Sequences, FiniteSets, TLC

\* Bounds of the explored instances.
MaxEmployees == 2
MaxDays == 3
MaxHoursBlocks == 3
MaxCells == 6
MaxTableCells == 4
MaxRuns == 2

VARIABLES
    cfg,                  \* the ENABLE_* flags of app/config.py
    hours_blocks,         \* HOURS_BLOCKS of app/config.py
    employees_df,         \* table Employees, in row order
    timeslots_df,         \* table Timeslot
    workload_df,          \* table Workload
    employees_skills_df,  \* table EmployeesSkills
    availability_df,      \* table Availability_Preferences
    setup_args,           \* enable_manager, enable_one_skill_per_timeslot of setup_constraints
    pc,                   \* position in main()
    model,                \* the cp_model.CpModel: its variables and constraints
    timeslots_vars,       \* keys of the dict of shift variables
    work_e_d,             \* dict e -> d -> work-indicator variable
    log,                  \* records written through logging.*
    status,               \* the status returned by solver.Solve
    solution,             \* the solver's value of every variable
    schedule,             \* the (employee, day, hours) entries logged by main
    db_schema,            \* the tables of the database, in creation order
    db_pc,                \* create_tables(): index of the next statement, 0 when not running
    db_error,             \* whether create_tables() has raised
    db_run                \* number of completed runs of create_tables()

database == <<db_schema, db_pc, db_error, db_run>>
inputs == <<cfg, hours_blocks, employees_df, timeslots_df, workload_df,
            employees_skills_df, availability_df, setup_args, database>>
vars == <<cfg, hours_blocks, employees_df, timeslots_df, workload_df,
          employees_skills_df, availability_df, setup_args, pc, model, timeslots_vars,
          work_e_d, log, status, solution, schedule, db_schema, db_pc, db_error, db_run>>

----------------------------------------------------------------------------
\* Generic helpers.

RECURSIVE Flatten(_)
Flatten(ss) == IF ss = <<>> THEN <<>> ELSE Head(ss) \o Flatten(Tail(ss))

Range(s) == {s[i] : i \in DOMAIN s}

Min(S) == CHOOSE x \in S : \A y \in S : x <= y

RECURSIVE SortedSeq(_)
SortedSeq(S) == IF S = {} THEN <<>> ELSE <<Min(S)>> \o SortedSeq(S \ {Min(S)})

----------------------------------------------------------------------------
\* The CP model: boolean variables and linear constraints.

RECURSIVE Digits(_)
Digits(n) == IF n < 10 THEN <<n>> ELSE Digits(n \div 10) \o <<n % 10>>

\* The name f"shift_e{e}_d{d}_h{h}" as a sequence of pieces and decimal digits.
ShiftName(e, d, h) ==
    <<"shift_e">> \o Digits(e) \o <<"_d">> \o Digits(d) \o <<"_h">> \o Digits(h)

Shift(e, d, h) == <<"shift", e, d, h>>
Work(e, d) == <<"work", e, d, 0>>
Transition(e, d, h) == <<"transition", e, d, h>>
BothOff(e, d) == <<"both_off", e, d, d + 1>>

\* sum(terms) op rhs, enforced only if lit = <<>> or the literal lit holds.
Lin(terms, op, rhs) == [terms |-> terms, op |-> op, rhs |-> rhs, lit |-> <<>>]
OnlyEnforceIf(c, var, val) == [c EXCEPT !.lit = <<var, val>>]

SumOf(vs) == [i \in 1..Len(vs) |-> <<1, vs[i]>>]

EmptyModel == [vars |-> <<>>, cts |-> <<>>]
NewBoolVars(m, vs) == [m EXCEPT !.vars = @ \o vs]
Add(m, cs) == [m EXCEPT !.cts = @ \o cs]

----------------------------------------------------------------------------
\* The solver's contract: the assignments that satisfy the model.

Cmp(s, op, rhs) ==
    CASE op = ">=" -> s >= rhs
      [] op = "<=" -> s <= rhs
      [] op = ">"  -> s > rhs
      [] op = "==" -> s = rhs
      [] op = "!=" -> s # rhs

Pos(order, v) == CHOOSE i \in 1..Len(order) : order[i] = v

\* A constraint with its variables replaced by their positions in the model.
Compile(order, c) ==
    [terms |-> [i \in 1..Len(c.terms) |-> <<c.terms[i][1], Pos(order, c.terms[i][2])>>],
     op |-> c.op, rhs |-> c.rhs,
     lit |-> IF c.lit = <<>> THEN <<>> ELSE <<Pos(order, c.lit[1]), c.lit[2]>>]

LastPos(cc) ==
    LET ps == {cc.terms[i][2] : i \in 1..Len(cc.terms)}
              \cup (IF cc.lit = <<>> THEN {} ELSE {cc.lit[1]})
    IN IF ps = {} THEN 0 ELSE CHOOSE p \in ps : \A q \in ps : q <= p

RECURSIVE SumTerms(_, _, _)
SumTerms(terms, bits, i) ==
    IF i > Len(terms) THEN 0
    ELSE terms[i][1] * bits[terms[i][2]] + SumTerms(terms, bits, i + 1)

HoldsAt(cc, bits) ==
    \/ cc.lit # <<>> /\ bits[cc.lit[1]] # cc.lit[2]
    \/ Cmp(SumTerms(cc.terms, bits, 1), cc.op, cc.rhs)

RECURSIVE Extend(_, _, _)
Extend(n, byLast, bits) ==
    IF Len(bits) = n THEN {bits}
    ELSE UNION { LET b2 == Append(bits, b) IN
                 IF \A cc \in byLast[Len(b2)] : HoldsAt(cc, b2)
                 THEN Extend(n, byLast, b2) ELSE {}
                 : b \in {0, 1} }

\* Every assignment (variable -> 0/1) satisfying all constraints of m.
SatAssignments(m) ==
    LET n == Len(m.vars)
        ccs == {Compile(m.vars, m.cts[k]) : k \in 1..Len(m.cts)}
        byLast == [p \in 0..n |-> {cc \in ccs : LastPos(cc) = p}]
    IN IF \E cc \in byLast[0] : ~HoldsAt(cc, <<>>) THEN {}
       ELSE { [v \in Range(m.vars) |-> bits[Pos(m.vars, v)]] : bits \in Extend(n, byLast, <<>>) }

----------------------------------------------------------------------------
\* main(): parameters and lookup structures derived from the tables.

num_employees == Len(employees_df)
num_days == Cardinality({r.Date : r \in timeslots_df})
num_timeslots == Cardinality(timeslots_df)
skills == SortedSeq({r.SkillID : r \in workload_df})
all_employee_ids == [i \in 1..Len(employees_df) |-> employees_df[i].EmployeeID]
manager_employee_ids ==
    LET managers == SelectSeq(employees_df, LAMBDA r : r.RoleID = 1)
    IN [i \in 1..Len(managers) |-> managers[i].EmployeeID]
workload_dict ==
    [k \in {<<r.TimeslotID, r.SkillID>> : r \in workload_df} |->
        LET r == CHOOSE r \in workload_df : <<r.TimeslotID, r.SkillID>> = k
        IN [MinAmount |-> r.MinAmount, OptAmount |-> r.OptAmount]]
skill_to_employees ==
    [s \in Range(skills) |->
        SortedSeq({r.EmployeeID : r \in {x \in employees_skills_df : x.SkillID = s}})]

\* The grid with range(n + 1) in place of range(n).
GridKeysInclusive == (0..num_employees) \X (0..num_days) \X (0..hours_blocks)

GridKeys == (0..num_employees - 1) \X (0..num_days - 1) \X (0..hours_blocks - 1)
GridVars ==
    [k \in 1..num_employees * num_days * hours_blocks |->
        Shift((k - 1) \div (num_days * hours_blocks),
              ((k - 1) \div hours_blocks) % num_days,
              (k - 1) % hours_blocks)]

\* (e, day, hour) in timeslots_vars, for a Day cell read from the Timeslot
\* table: a TEXT cell is a string and equals no integer key.
HasKey(e, day, hour) == ~day.text /\ <<e, day.val, hour>> \in timeslots_vars

\* The (e, d) pairs in the order of the nested loops over employees and days.
EmployeeDays ==
    [k \in 1..num_employees * num_days |-> <<(k - 1) \div num_days, (k - 1) % num_days>>]
DayShifts(e, d) == [i \in 1..hours_blocks |-> Shift(e, d, i - 1)]

----------------------------------------------------------------------------
\* The constraint groups.

\* The link without its second half: works[e,d] = 0 leaves the shifts free.
WorkIndicatorLinkOneWay(e, d) ==
    << OnlyEnforceIf(Lin(SumOf(DayShifts(e, d)), ">", 0), Work(e, d), 1) >>

\* add_work_indicator_constraints: the variables and constraints of one (e, d).
WorkIndicatorLink(e, d) ==
    << OnlyEnforceIf(Lin(SumOf(DayShifts(e, d)), ">", 0), Work(e, d), 1),
       OnlyEnforceIf(Lin(SumOf(DayShifts(e, d)), "==", 0), Work(e, d), 0) >>

WorkIndicatorConstraints ==
    Flatten([k \in 1..Len(EmployeeDays) |->
                WorkIndicatorLink(EmployeeDays[k][1], EmployeeDays[k][2])])

\* add_transition_constraints.
TransitionVars(e, d) == [i \in 1..hours_blocks - 1 |-> Transition(e, d, i - 1)]

TransitionLink(e, d, h) ==
    << OnlyEnforceIf(Lin(<< <<1, Shift(e, d, h)>>, <<-1, Shift(e, d, h + 1)>> >>, "!=", 0),
                     Transition(e, d, h), 1),
       OnlyEnforceIf(Lin(<< <<1, Shift(e, d, h)>>, <<-1, Shift(e, d, h + 1)>> >>, "==", 0),
                     Transition(e, d, h), 0) >>

TransitionLimit(e, d) == Lin(SumOf(TransitionVars(e, d)), "<=", 2)

TransitionConstraints ==
    Flatten([k \in 1..Len(EmployeeDays) |->
        LET e == EmployeeDays[k][1]
            d == EmployeeDays[k][2]
        IN Flatten([i \in 1..hours_blocks - 1 |-> TransitionLink(e, d, i - 1)])
           \o <<TransitionLimit(e, d)>>])

\* add_consecutive_days_off_constraints.
BothOffVars(e) == [i \in 1..num_days - 1 |-> BothOff(e, i - 1)]

\* The link that constrains only the first day of the pair.
BothOffLinkFirstDay(e, d) ==
    << OnlyEnforceIf(Lin(<< <<1, work_e_d[e][d]>> >>, "==", 0), BothOff(e, d), 1) >>

BothOffLink(e, d) ==
    << OnlyEnforceIf(Lin(<< <<1, work_e_d[e][d]>> >>, "==", 0), BothOff(e, d), 1),
       OnlyEnforceIf(Lin(<< <<1, work_e_d[e][d + 1]>> >>, "==", 0), BothOff(e, d), 1) >>

DaysOffRequirement(e) == Lin(SumOf(BothOffVars(e)), ">=", 1)

ConsecutiveDaysOffConstraints ==
    Flatten([j \in 1..num_employees |->
        Flatten([i \in 1..num_days - 1 |-> BothOffLink(j - 1, i - 1)])
        \o <<DaysOffRequirement(j - 1)>>])

\* work_e_d[e][d] raises KeyError: the dict is filled only by the
\* work-indicator group.
DaysOffKeyError == num_employees >= 1 /\ num_days >= 2 /\ 0 \notin DOMAIN work_e_d

\* add_hour_constraints.
WeekShifts(e) == Flatten([i \in 1..num_days |-> DayShifts(e, i - 1)])

WeeklyBounds(e) ==
    << Lin(SumOf(WeekShifts(e)), ">=", employees_df[e + 1].WeeklyMinHours),
       Lin(SumOf(WeekShifts(e)), "<=", employees_df[e + 1].WeeklyMaxHours) >>

\* The daily bounds read from the first row for every employee.
DailyBoundsFirstRow(e, d) ==
    << Lin(SumOf(DayShifts(e, d)), ">=", employees_df[1].DailyMinHours),
       Lin(SumOf(DayShifts(e, d)), "<=", employees_df[1].DailyMaxHours) >>

\* The daily bounds without the minimum.
DailyBoundsMaxOnly(e, d) ==
    << Lin(SumOf(DayShifts(e, d)), "<=", employees_df[e + 1].DailyMaxHours) >>

DailyBounds(e, d) ==
    << Lin(SumOf(DayShifts(e, d)), ">=", employees_df[e + 1].DailyMinHours),
       Lin(SumOf(DayShifts(e, d)), "<=", employees_df[e + 1].DailyMaxHours) >>

\* The hour group without its daily bounds.
HourConstraintsWeeklyOnly == Flatten([j \in 1..num_employees |-> WeeklyBounds(j - 1)])

HourConstraints ==
    Flatten([j \in 1..num_employees |->
        WeeklyBounds(j - 1) \o Flatten([i \in 1..num_days |-> DailyBounds(j - 1, i - 1)])])

\* add_workload_constraints.  acc = [cts, log, raised]: the constraints added
\* and records logged so far, and whether the ValueError has been raised.
Logged(acc, entry) == [acc EXCEPT !.log = @ \cup {entry}]
Added(acc, cs) == [acc EXCEPT !.cts = @ \o cs]

TimeslotRow(ts) == CHOOSE r \in timeslots_df : r.TimeslotID = ts
TimeslotFound(ts) == \E r \in timeslots_df : r.TimeslotID = ts

AssignedVars(ids, day, hour) ==
    LET with == SelectSeq(ids, LAMBDA e : HasKey(e, day, hour))
    IN [i \in 1..Len(with) |-> Shift(with[i], day.val, hour)]

MinWorkload(ts, skill) ==
    IF <<ts, skill>> \in DOMAIN workload_dict THEN workload_dict[<<ts, skill>>].MinAmount ELSE 0

\* The loop body without the raise of lines 258-262: a skill nobody has is
\* only warned about.
CoverageStepNoRaise(acc, ts, skill, day, hour) ==
    IF <<ts, skill>> \notin DOMAIN workload_dict THEN acc
    ELSE LET min_workload == workload_dict[<<ts, skill>>].MinAmount
             eligible_employees == skill_to_employees[skill]
             assigned_vars == AssignedVars(eligible_employees, day, hour)
         IN IF eligible_employees = <<>>
            THEN Logged(acc, <<"warning", "no_employees_with_skill", skill, ts>>)
            ELSE IF assigned_vars = <<>>
            THEN Logged(acc, <<"warning", "no_shift_variables", skill, ts>>)
            ELSE Added(acc, <<Lin(SumOf(assigned_vars), ">=", min_workload)>>)

\* The body of the loop over skills (lines 246-278) for one skill.
CoverageStep(acc, ts, skill, day, hour) ==
    IF <<ts, skill>> \notin DOMAIN workload_dict THEN acc
    ELSE LET min_workload == workload_dict[<<ts, skill>>].MinAmount
             eligible_employees == skill_to_employees[skill]
             assigned_vars == AssignedVars(eligible_employees, day, hour)
         IN IF eligible_employees = <<>>
            THEN [Logged(acc, <<"warning", "no_employees_with_skill", skill, ts>>)
                    EXCEPT !.raised = (min_workload > 0)]
            ELSE IF assigned_vars = <<>>
            THEN Logged(acc, <<"warning", "no_shift_variables", skill, ts>>)
            ELSE Added(acc, <<Lin(SumOf(assigned_vars), ">=", min_workload)>>)

RECURSIVE CoverageLoop(_, _, _, _, _)
CoverageLoop(acc, ts, i, day, hour) ==
    IF acc.raised \/ i > Len(skills) THEN acc
    ELSE CoverageLoop(CoverageStep(acc, ts, skills[i], day, hour), ts, i + 1, day, hour)

\* Lines 282-293: one constraint per employee ID that has a shift variable;
\* the variable is listed once per skill.
OneSkillConstraints(day, hour) ==
    LET with == SelectSeq(all_employee_ids, LAMBDA e : HasKey(e, day, hour) /\ skills # <<>>)
    IN [i \in 1..Len(with) |->
           Lin([k \in 1..Len(skills) |-> <<1, Shift(with[i], day.val, hour)>>], "<=", 1)]

\* Lines 295-309: one pass per skill with a positive minimum.
RECURSIVE ManagerLoop(_, _, _, _, _)
ManagerLoop(acc, ts, i, day, hour) ==
    IF i > Len(skills) THEN acc
    ELSE LET manager_assignments == AssignedVars(manager_employee_ids, day, hour)
             next == IF MinWorkload(ts, skills[i]) > 0
                     THEN IF manager_assignments # <<>>
                          THEN Added(acc, <<Lin(SumOf(manager_assignments), ">=", 1)>>)
                          ELSE Logged(acc, <<"warning", "no_manager_assignments", ts, hour>>)
                     ELSE acc
         IN ManagerLoop(next, ts, i + 1, day, hour)

\* The body of the loop over timeslot IDs (lines 217-309) for one ID.
TimeslotStep(acc, ts, enable_one_skill_per_timeslot, enable_manager_requirement) ==
    IF ~TimeslotFound(ts)
    THEN Logged(acc, <<"error", "timeslot_not_found", ts, 0>>)
    ELSE LET day == TimeslotRow(ts).Day
             hour == TimeslotRow(ts).Hour
             covered == CoverageLoop(acc, ts, 1, day, hour)
             booked == IF enable_one_skill_per_timeslot
                       THEN Added(covered, OneSkillConstraints(day, hour))
                       ELSE covered
         IN IF covered.raised THEN covered
            ELSE IF enable_manager_requirement
            THEN ManagerLoop(booked, ts, 1, day, hour)
            ELSE booked

\* The loop leaving at the first timeslot ID without a row (break for continue).
RECURSIVE TimeslotLoopBreak(_, _, _, _)
TimeslotLoopBreak(acc, ts, one_skill, manager) ==
    IF acc.raised \/ ts > num_timeslots \/ ~TimeslotFound(ts) THEN acc
    ELSE TimeslotLoopBreak(TimeslotStep(acc, ts, one_skill, manager), ts + 1, one_skill, manager)

RECURSIVE TimeslotLoop(_, _, _, _)
TimeslotLoop(acc, ts, one_skill, manager) ==
    IF acc.raised \/ ts > num_timeslots THEN acc
    ELSE TimeslotLoop(TimeslotStep(acc, ts, one_skill, manager), ts + 1, one_skill, manager)

WorkloadConstraints(one_skill, manager) ==
    TimeslotLoop([cts |-> <<>>, log |-> {}, raised |-> FALSE], 1, one_skill, manager)

\* add_availability_constraints.  The rows carry the columns of the table.
AvailabilityColumns == {"AvailabilitePreferencesID", "TimeslotID", "EmployeeID"}

AvailabilityKeyError ==
    availability_df # {} /\ ~({"EmployeeID", "Day", "Hour"} \subseteq AvailabilityColumns)

AvailabilityConstraints ==
    LET unavailable == {<<r.EmployeeID, r.Day, r.Hour>> : r \in availability_df}
        hit == SelectSeq(GridVars, LAMBDA v : <<v[2], v[3], v[4]>> \in unavailable)
    IN [i \in 1..Len(hit) |-> Lin(<< <<1, hit[i]>> >>, "==", 0)]

----------------------------------------------------------------------------
\* main() and setup_constraints, one action per step.

Raise == pc' = "except"

\* Lines 451-458: the shift-variable grid.
create_variables ==
    /\ pc = "start"
    /\ timeslots_vars' = GridKeys
    /\ model' = NewBoolVars(model, GridVars)
    /\ work_e_d' = <<>>
    /\ pc' = "availability"
    /\ UNCHANGED <<inputs, log, status, solution, schedule>>

add_availability_constraints ==
    /\ pc = "availability"
    /\ pc' = "work_indicator"
    /\ IF ~cfg.ENABLE_AVAILABILITY THEN UNCHANGED <<model, log>>
       ELSE IF AvailabilityKeyError
       THEN /\ log' = log \cup {<<"error", "availability", 0, 0>>}
            /\ UNCHANGED model
       ELSE /\ model' = Add(model, AvailabilityConstraints)
            /\ UNCHANGED log
    /\ UNCHANGED <<inputs, timeslots_vars, work_e_d, status, solution, schedule>>

add_work_indicator_constraints ==
    /\ pc = "work_indicator"
    /\ pc' = "transition"
    /\ IF ~cfg.ENABLE_WORK_INDICATOR THEN UNCHANGED <<model, work_e_d>>
       ELSE /\ work_e_d' = [e \in 0..num_employees - 1 |->
                               [d \in 0..num_days - 1 |-> Work(e, d)]]
            /\ model' = Add(NewBoolVars(model,
                                [k \in 1..Len(EmployeeDays) |->
                                    Work(EmployeeDays[k][1], EmployeeDays[k][2])]),
                            WorkIndicatorConstraints)
    /\ UNCHANGED <<inputs, timeslots_vars, log, status, solution, schedule>>

add_transition_constraints ==
    /\ pc = "transition"
    /\ pc' = "consecutive_days_off"
    /\ IF ~cfg.ENABLE_TRANSITION THEN UNCHANGED model
       ELSE model' = Add(NewBoolVars(model,
                            Flatten([k \in 1..Len(EmployeeDays) |->
                                TransitionVars(EmployeeDays[k][1], EmployeeDays[k][2])])),
                         TransitionConstraints)
    /\ UNCHANGED <<inputs, timeslots_vars, work_e_d, log, status, solution, schedule>>

\* The group added whatever its flag says.
add_consecutive_days_off_constraints_unconditionally ==
    /\ pc = "consecutive_days_off"
    /\ IF DaysOffKeyError
       THEN Raise /\ model' = NewBoolVars(model, <<BothOff(0, 0)>>)
       ELSE /\ pc' = "hours"
            /\ model' = Add(NewBoolVars(model,
                                Flatten([j \in 1..num_employees |-> BothOffVars(j - 1)])),
                            ConsecutiveDaysOffConstraints)
    /\ UNCHANGED <<inputs, timeslots_vars, work_e_d, log, status, solution, schedule>>

add_consecutive_days_off_constraints ==
    /\ pc = "consecutive_days_off"
    /\ IF ~cfg.ENABLE_CONSECUTIVE_DAYS_OFF
       THEN pc' = "hours" /\ UNCHANGED model
       ELSE IF DaysOffKeyError
       THEN Raise /\ model' = NewBoolVars(model, <<BothOff(0, 0)>>)
       ELSE /\ pc' = "hours"
            /\ model' = Add(NewBoolVars(model,
                                Flatten([j \in 1..num_employees |-> BothOffVars(j - 1)])),
                            ConsecutiveDaysOffConstraints)
    /\ UNCHANGED <<inputs, timeslots_vars, work_e_d, log, status, solution, schedule>>

add_hour_constraints ==
    /\ pc = "hours"
    /\ pc' = "workload"
    /\ IF ~cfg.ENABLE_HOURS THEN UNCHANGED model
       ELSE model' = Add(model, HourConstraints)
    /\ UNCHANGED <<inputs, timeslots_vars, work_e_d, log, status, solution, schedule>>

\* The sub-groups switched by the arguments of setup_constraints.
add_workload_constraints_by_arguments ==
    /\ pc = "workload"
    /\ IF ~cfg.ENABLE_WORKLOAD
       THEN pc' = "solve" /\ UNCHANGED <<model, log>>
       ELSE LET built == WorkloadConstraints(setup_args.enable_one_skill_per_timeslot,
                                             setup_args.enable_manager)
            IN /\ model' = Add(model, built.cts)
               /\ log' = log \cup built.log
               /\ IF built.raised THEN Raise ELSE pc' = "solve"
    /\ UNCHANGED <<inputs, timeslots_vars, work_e_d, status, solution, schedule>>

\* Lines 401-406: the call passes the module-level ENABLE_ONE_SKILL_PER_TIMESLOT
\* and ENABLE_MANAGER, whatever setup_constraints was given as enable_manager
\* and enable_one_skill_per_timeslot.
add_workload_constraints ==
    /\ pc = "workload"
    /\ IF ~cfg.ENABLE_WORKLOAD
       THEN pc' = "solve" /\ UNCHANGED <<model, log>>
       ELSE LET built == WorkloadConstraints(cfg.ENABLE_ONE_SKILL_PER_TIMESLOT,
                                             cfg.ENABLE_MANAGER)
            IN /\ model' = Add(model, built.cts)
               /\ log' = log \cup built.log
               /\ IF built.raised THEN Raise ELSE pc' = "solve"
    /\ UNCHANGED <<inputs, timeslots_vars, work_e_d, status, solution, schedule>>

\* Line 508: cp_model.CpSolver() with nothing assigned to solver.parameters;
\* the limits keep the library's defaults, which are unbounded.
SolverParameters == [max_time_in_seconds |-> "unbounded", max_deterministic_time |-> "unbounded"]

\* The names app/solver.py imports from app.config (lines 8-21).  The actions
\* of main() take every ENABLE_* flag among them as an input, bound or not.
ImportedNames ==
    {"DATABASE_PATH", "LOG_LEVEL", "LOG_FORMAT", "HOURS_BLOCKS",
     "ENABLE_WORK_INDICATOR", "ENABLE_TRANSITION", "ENABLE_CONSECUTIVE_DAYS_OFF",
     "ENABLE_HOURS", "ENABLE_WORKLOAD", "ENABLE_AVAILABILITY", "ENABLE_MANAGER",
     "ENABLE_ONE_SKILL_PER_TIMESLOT"}

\* The names app/config.py defines (lines 4-18).
ConfigNames ==
    {"DATABASE_PATH", "LOG_LEVEL", "LOG_FORMAT", "HOURS_BLOCKS",
     "ENABLE_WORK_INDICATOR", "ENABLE_TRANSITION", "ENABLE_CONSECUTIVE_DAYS_OFF",
     "ENABLE_HOURS", "ENABLE_WORKLOAD"}

\* Line 510: solver.Solve(model).  A satisfiable model without objective is
\* reported OPTIMAL or FEASIBLE, depending on the library version; the search
\* may also end without an answer (UNKNOWN).
Solve ==
    /\ pc = "solve"
    /\ pc' = "solved"
    /\ LET found == SatAssignments(model)
       IN \/ found = {} /\ status' = "INFEASIBLE" /\ UNCHANGED solution
          \/ found # {} /\ status' \in {"OPTIMAL", "FEASIBLE"} /\ solution' \in found
          \/ status' = "UNKNOWN" /\ UNCHANGED solution
    /\ UNCHANGED <<inputs, model, timeslots_vars, work_e_d, log, schedule>>

Value(v) == solution[v]

\* The list comprehension without its filter on the variable's value.
WorkedHoursUnfiltered(e, d) == [i \in 1..hours_blocks |-> i - 1]

WorkedHours(e, d) ==
    SelectSeq([i \in 1..hours_blocks |-> i - 1], LAMBDA h : Value(Shift(e, d, h)) = 1)

\* Lines 513-529: the schedule of a solution.
extract_schedule ==
    /\ pc = "solved"
    /\ status \in {"OPTIMAL", "FEASIBLE"}
    /\ schedule' = {<<e, d, WorkedHours(e, d)>> :
                        <<e, d>> \in {x \in (0..num_employees - 1) \X (0..num_days - 1) :
                                          WorkedHours(x[1], x[2]) # <<>>}}
    /\ log' = log \cup {<<"info", "solution_found", status, 0>>}
    /\ pc' = "done"
    /\ UNCHANGED <<inputs, model, timeslots_vars, work_e_d, status, solution>>

\* The else branch going back to the solve call.
report_and_retry ==
    /\ pc = "solved"
    /\ status \notin {"OPTIMAL", "FEASIBLE"}
    /\ log' = log \cup {<<"error", "no_solution", status, 0>>}
    /\ pc' = "solve"
    /\ UNCHANGED <<inputs, model, timeslots_vars, work_e_d, status, solution, schedule>>

\* The else branch taken for every status but OPTIMAL.
report_unless_optimal ==
    /\ pc = "solved"
    /\ status # "OPTIMAL"
    /\ log' = log \cup {<<"error", "no_solution", status, 0>>}
    /\ pc' = "done"
    /\ UNCHANGED <<inputs, model, timeslots_vars, work_e_d, status, solution, schedule>>

\* Lines 530-531: the record names the status and nothing else.
report_no_solution ==
    /\ pc = "solved"
    /\ status \notin {"OPTIMAL", "FEASIBLE"}
    /\ log' = log \cup {<<"error", "no_solution", status, 0>>}
    /\ pc' = "done"
    /\ UNCHANGED <<inputs, model, timeslots_vars, work_e_d, status, solution, schedule>>

\* Lines 533-535: main's except clause.
handle_exception ==
    /\ pc = "except"
    /\ log' = log \cup {<<"error", "solver_setup", 0, 0>>}
    /\ pc' = "done"
    /\ UNCHANGED <<inputs, model, timeslots_vars, work_e_d, status, solution, schedule>>

Next ==
    \/ create_variables
    \/ add_availability_constraints
    \/ add_work_indicator_constraints
    \/ add_transition_constraints
    \/ add_consecutive_days_off_constraints
    \/ add_hour_constraints
    \/ add_workload_constraints
    \/ Solve
    \/ extract_schedule
    \/ report_no_solution
    \/ handle_exception

----------------------------------------------------------------------------
\* db/create_tables.py: the CREATE TABLE IF NOT EXISTS statements in the order
\* they are executed, with the primary key and the (column, referenced table)
\* pairs of the foreign keys each declares.

Table(name, pk, fks) == [name |-> name, pk |-> pk, fks |-> fks]

\* The statements with Workload moved ahead of the tables it references.
CreateStatementsWorkloadFirst ==
    << Table("Workload", {"UniqueID"},
             {<<"TimeslotID", "Timeslot">>, <<"SkillID", "Skills">>, <<"StoreID", "Store">>}),
       Table("Roles", {"RoleID"}, {}),
       Table("Status", {"StatusID"}, {}),
       Table("Employees", {"EmployeeID"}, {<<"RoleID", "Roles">>, <<"StatusID", "Status">>}),
       Table("Codes", {"CodeID"}, {}),
       Table("Timeslot", {"TimeslotID"}, {<<"CodeID", "Codes">>}),
       Table("Availability_Preferences", {"AvailabilitePreferencesID"},
             {<<"TimeslotID", "Timeslot">>, <<"EmployeeID", "Employees">>}),
       Table("Skills", {"SkillID"}, {}),
       Table("EmployeesSkills", {"SkillID", "EmployeeID"},
             {<<"SkillID", "Skills">>, <<"EmployeeID", "Employees">>}),
       Table("Store", {"StoreID"}, {}) >>

CreateStatements ==
    << Table("Roles", {"RoleID"}, {}),
       Table("Status", {"StatusID"}, {}),
       Table("Employees", {"EmployeeID"}, {<<"RoleID", "Roles">>, <<"StatusID", "Status">>}),
       Table("Codes", {"CodeID"}, {}),
       Table("Timeslot", {"TimeslotID"}, {<<"CodeID", "Codes">>}),
       Table("Availability_Preferences", {"AvailabilitePreferencesID"},
             {<<"TimeslotID", "Timeslot">>, <<"EmployeeID", "Employees">>}),
       Table("Skills", {"SkillID"}, {}),
       Table("EmployeesSkills", {"SkillID", "EmployeeID"},
             {<<"SkillID", "Skills">>, <<"EmployeeID", "Employees">>}),
       Table("Store", {"StoreID"}, {}),
       Table("Workload", {"UniqueID"},
             {<<"TimeslotID", "Timeslot">>, <<"SkillID", "Skills">>, <<"StoreID", "Store">>}) >>

TableNames(schema) == {schema[i].name : i \in 1..Len(schema)}

\* Lines 17-21: duckdb.connect at the start of a run.
db_connect ==
    /\ db_pc = 0
    /\ ~db_error
    /\ db_run < MaxRuns
    /\ db_pc' = 1
    /\ UNCHANGED <<db_schema, db_error, db_run>>
    /\ UNCHANGED <<cfg, hours_blocks, employees_df, timeslots_df, workload_df,
                   employees_skills_df, availability_df, setup_args, pc, model, timeslots_vars,
                   work_e_d, log, status, solution, schedule>>

\* One con.execute(CREATE TABLE IF NOT EXISTS ...): the database rejects a
\* foreign key to a table that does not exist, which ends the run in the
\* except clause (lines 140-145); an existing table is left as it is.  After
\* the last statement the connection is closed.
db_execute ==
    /\ db_pc \in 1..Len(CreateStatements)
    /\ LET st == CreateStatements[db_pc]
       IN IF st.name \in TableNames(db_schema)
          THEN /\ db_schema' = db_schema
               /\ db_pc' = IF db_pc = Len(CreateStatements) THEN 0 ELSE db_pc + 1
               /\ db_run' = IF db_pc = Len(CreateStatements) THEN db_run + 1 ELSE db_run
               /\ UNCHANGED db_error
          ELSE IF \E fk \in st.fks : fk[2] \notin TableNames(db_schema)
          THEN db_pc' = 0 /\ db_error' = TRUE /\ UNCHANGED <<db_schema, db_run>>
          ELSE /\ db_schema' = Append(db_schema, st)
               /\ db_pc' = IF db_pc = Len(CreateStatements) THEN 0 ELSE db_pc + 1
               /\ db_run' = IF db_pc = Len(CreateStatements) THEN db_run + 1 ELSE db_run
               /\ UNCHANGED db_error
    /\ UNCHANGED <<cfg, hours_blocks, employees_df, timeslots_df, workload_df,
                   employees_skills_df, availability_df, setup_args, pc, model, timeslots_vars,
                   work_e_d, log, status, solution, schedule>>

NextDb == db_connect \/ db_execute

----------------------------------------------------------------------------
\* The instances explored: tables and flags main() may be started with.

Shapes ==
    {s \in (1..MaxEmployees) \X (1..MaxDays) \X (1..MaxHoursBlocks) :
        s[1] * s[2] * s[3] <= MaxCells}

Flags(av, wi, tr, cdo, hrs, wl, mgr, osk) ==
    [ENABLE_AVAILABILITY |-> av, ENABLE_WORK_INDICATOR |-> wi, ENABLE_TRANSITION |-> tr,
     ENABLE_CONSECUTIVE_DAYS_OFF |-> cdo, ENABLE_HOURS |-> hrs, ENABLE_WORKLOAD |-> wl,
     ENABLE_MANAGER |-> mgr, ENABLE_ONE_SKILL_PER_TIMESLOT |-> osk]

HourBounds(dmin, dmax, wmin, wmax) ==
    [DailyMinHours |-> dmin, DailyMaxHours |-> dmax,
     WeeklyMinHours |-> wmin, WeeklyMaxHours |-> wmax]

LooseHours == HourBounds(0, MaxHoursBlocks, 0, MaxCells)
HourProfiles == {LooseHours, HourBounds(1, 2, 2, 3), HourBounds(0, 1, 1, 2)}

\* Employees rows with EmployeeID id_base, id_base + 1, ...; the rows at the
\* positions in managers have RoleID 1.
EmployeesTable(n, id_base, managers, hours) ==
    [i \in 1..n |->
        [EmployeeID |-> i - 1 + id_base,
         RoleID |-> IF i \in managers THEN 1 ELSE 2,
         DailyMinHours |-> hours[i].DailyMinHours,
         DailyMaxHours |-> hours[i].DailyMaxHours,
         WeeklyMinHours |-> hours[i].WeeklyMinHours,
         WeeklyMaxHours |-> hours[i].WeeklyMaxHours]]

\* One Timeslot row per (day, hour) of the horizon, TimeslotIDs dense from
\* ts_base on; the Day column is TEXT (create_tables.py) or INTEGER (create_db.py).
TimeslotTable(days, hours, ts_base, text) ==
    {[TimeslotID |-> d * hours + h + ts_base, Date |-> d,
      Day |-> [text |-> text, val |-> d], Hour |-> h] :
        <<d, h>> \in (0..days - 1) \X (0..hours - 1)}

\* Lines 493-494: main() passes the module-level flags to setup_constraints.
MainArguments ==
    [enable_manager |-> cfg.ENABLE_MANAGER,
     enable_one_skill_per_timeslot |-> cfg.ENABLE_ONE_SKILL_PER_TIMESLOT]

\* The state before the grid is allocated, on a database whose tables
\* create_tables() has created.
Constructed ==
    /\ db_schema = CreateStatements
    /\ db_pc = 0
    /\ db_error = FALSE
    /\ db_run = 1
    /\ pc = "start"
    /\ model = EmptyModel
    /\ timeslots_vars = {}
    /\ work_e_d = <<>>
    /\ log = {}
    /\ status = "NONE"
    /\ solution = <<>>
    /\ schedule = {}

StartState == setup_args = MainArguments /\ Constructed

\* Instances with empty Workload and Availability_Preferences tables.
InitGrid ==
    \E s \in Shapes, wi, tr, cdo, hrs \in BOOLEAN :
    \E hours \in [1..s[1] -> IF hrs THEN HourProfiles ELSE {LooseHours}] :
        /\ cfg = Flags(TRUE, wi, tr, cdo, hrs, TRUE, TRUE, TRUE)
        /\ hours_blocks = s[3]
        /\ employees_df = EmployeesTable(s[1], 1, {1}, hours)
        /\ timeslots_df = TimeslotTable(s[2], s[3], 1, TRUE)
        /\ workload_df = {}
        /\ employees_skills_df = {}
        /\ availability_df = {}
        /\ StartState

Init == InitGrid

Spec == Init /\ [][Next]_vars

\* Instances with rows in the Workload, EmployeesSkills and
\* Availability_Preferences tables, on the smaller grids.
TableShapes == {s \in Shapes : s[1] * s[2] * s[3] <= MaxTableCells}

\* (first TimeslotID, Day column is TEXT): the populated data (IDs from 1) under
\* either schema, and dense IDs from 0 or from 2.
TimeslotVariants == {<<1, FALSE>>, <<1, TRUE>>, <<0, FALSE>>, <<2, FALSE>>}

AllLoose(n) == [i \in 1..n |-> LooseHours]
EmployeeIDs(n, id_base) == {i - 1 + id_base : i \in 1..n}
Requirement(ts, skill, amounts) ==
    [TimeslotID |-> ts, SkillID |-> skill, MinAmount |-> amounts[1], OptAmount |-> amounts[2]]
SkillRows(skill, ids) == {[SkillID |-> skill, EmployeeID |-> id] : id \in ids}

TablesState(s, flags, id_base, managers, tsv, workload, employees_skills, availability) ==
    /\ cfg = flags
    /\ hours_blocks = s[3]
    /\ employees_df = EmployeesTable(s[1], id_base, managers, AllLoose(s[1]))
    /\ timeslots_df = TimeslotTable(s[2], s[3], tsv[1], tsv[2])
    /\ workload_df = workload
    /\ employees_skills_df = employees_skills
    /\ availability_df = availability
    /\ StartState

\* One requirement for skill 1, on the first or the last timeslot of the table.
InitCoverage ==
    \E s \in TableShapes, id_base \in {0, 1}, tsv \in TimeslotVariants, last, wl \in BOOLEAN,
       amounts \in {<<0, 1>>, <<1, 1>>, <<2, 2>>}, eligible \in {"none", "first", "all"} :
        /\ wl \/ (tsv = <<1, FALSE>> /\ ~last)
        /\ TablesState(s, Flags(FALSE, FALSE, FALSE, FALSE, FALSE, wl, FALSE, TRUE),
               id_base, {1}, tsv,
               {Requirement(IF last THEN tsv[1] + s[2] * s[3] - 1 ELSE tsv[1], 1, amounts)},
               SkillRows(1, CASE eligible = "none" -> {}
                              [] eligible = "first" -> {id_base}
                              [] eligible = "all" -> EmployeeIDs(s[1], id_base)),
               {})

\* The manager requirement, with no manager, the first or the last row a manager.
InitManager ==
    \E s \in TableShapes, id_base \in {0, 1}, tsv \in TimeslotVariants,
       amounts \in {<<0, 1>>, <<1, 1>>} :
    \E managers \in {{}, {1}, {s[1]}} :
        TablesState(s, Flags(FALSE, FALSE, FALSE, FALSE, FALSE, TRUE, TRUE, TRUE),
            id_base, managers, tsv,
            {Requirement(tsv[1], 1, amounts)},
            SkillRows(1, EmployeeIDs(s[1], id_base)),
            {})

\* Requirements for two skills on the same timeslot.
InitTwoSkills ==
    \E s \in TableShapes, id_base \in {0, 1}, osk \in BOOLEAN :
        TablesState(s, Flags(FALSE, FALSE, FALSE, FALSE, FALSE, TRUE, FALSE, osk),
            id_base, {1}, <<1, FALSE>>,
            {Requirement(1, 1, <<1, 1>>), Requirement(1, 2, <<0, 1>>)},
            SkillRows(1, EmployeeIDs(s[1], id_base)) \cup SkillRows(2, EmployeeIDs(s[1], id_base)),
            {})

\* The first employee listed in Availability_Preferences for every timeslot
\* of the first day.
InitAvailability ==
    \E s \in TableShapes, id_base \in {0, 1}, text, listed \in BOOLEAN :
        TablesState(s, Flags(TRUE, TRUE, FALSE, FALSE, FALSE, FALSE, FALSE, TRUE),
            id_base, {1}, <<1, text>>, {}, {},
            IF listed
            THEN {[TimeslotID |-> r.TimeslotID, EmployeeID |-> id_base] :
                     r \in {x \in TimeslotTable(s[2], s[3], 1, text) : x.Date = 0}}
            ELSE {})

\* Every group enabled on a grid of at least two hours, with one requirement
\* on the first timeslot that every employee is eligible for.
InitMixed ==
    \E s \in {x \in TableShapes : x[3] >= 2}, tr, cdo \in BOOLEAN, amounts \in {<<0, 1>>, <<1, 1>>} :
        TablesState(s, Flags(TRUE, TRUE, tr, cdo, TRUE, TRUE, TRUE, TRUE),
            0, {1}, <<1, FALSE>>,
            {Requirement(1, 1, amounts)},
            SkillRows(1, EmployeeIDs(s[1], 0)),
            {})

\* Three employees who all have the only skill, one day of eight hourly
\* timeslots, one requirement (MinAmount 1, OptAmount 1) per timeslot, every
\* group enabled; EmployeeIDs are the row indices and Day is an integer.
InitScenarioA ==
    /\ cfg = Flags(TRUE, TRUE, TRUE, TRUE, TRUE, TRUE, TRUE, TRUE)
    /\ hours_blocks = 8
    /\ employees_df = EmployeesTable(3, 0, {1}, [i \in 1..3 |-> HourBounds(0, 8, 0, 8)])
    /\ timeslots_df = TimeslotTable(1, 8, 1, FALSE)
    /\ workload_df = {Requirement(ts, 1, <<1, 1>>) : ts \in 1..8}
    /\ employees_skills_df = SkillRows(1, EmployeeIDs(3, 0))
    /\ availability_df = {}
    /\ StartState

\* setup_constraints given enable_manager and enable_one_skill_per_timeslot
\* arguments of its caller's choice, on one requirement that every employee
\* is eligible for, the first employee a manager.
InitDirectCall ==
    \E s \in TableShapes, wl, mgr, osk \in BOOLEAN,
       args \in [{"enable_manager", "enable_one_skill_per_timeslot"} -> BOOLEAN] :
        /\ cfg = Flags(FALSE, FALSE, FALSE, FALSE, FALSE, wl, mgr, osk)
        /\ hours_blocks = s[3]
        /\ employees_df = EmployeesTable(s[1], 0, {1}, AllLoose(s[1]))
        /\ timeslots_df = TimeslotTable(s[2], s[3], 1, FALSE)
        /\ workload_df = {Requirement(1, 1, <<1, 1>>)}
        /\ employees_skills_df = SkillRows(1, EmployeeIDs(s[1], 0))
        /\ availability_df = {}
        /\ setup_args = args
        /\ Constructed

\* One employee who has the only skill and must work one to two hours a
\* day and two to four a week, two days of two hourly timeslots, one
\* requirement (MinAmount 1) on the first timeslot of each day; every group
\* enabled, the consecutive-days-off group enabled or not.
InitScenarioD ==
    \E cdo \in BOOLEAN :
        /\ cfg = Flags(TRUE, TRUE, TRUE, cdo, TRUE, TRUE, TRUE, TRUE)
        /\ hours_blocks = 2
        /\ employees_df = EmployeesTable(1, 0, {1}, <<HourBounds(1, 2, 2, 4)>>)
        /\ timeslots_df = TimeslotTable(2, 2, 1, FALSE)
        /\ workload_df = {Requirement(1, 1, <<1, 1>>), Requirement(3, 1, <<1, 1>>)}
        /\ employees_skills_df = SkillRows(1, EmployeeIDs(1, 0))
        /\ availability_df = {}
        /\ StartState

InitTables ==
    \/ InitCoverage \/ InitManager \/ InitTwoSkills \/ InitAvailability \/ InitMixed
    \/ InitScenarioA \/ InitScenarioD \/ InitDirectCall

SpecTables == InitTables /\ [][Next]_vars

\* create_tables() started on a database that holds some of the tables
\* already, none of them referencing a table that is absent; the empty
\* database is one of them.
InitDb ==
    \E present \in SUBSET (1..Len(CreateStatements)) :
        /\ \A i \in present : \A fk \in CreateStatements[i].fks :
              \E j \in present : CreateStatements[j].name = fk[2]
        /\ db_schema = SelectSeq(CreateStatements,
                                 LAMBDA st : \E i \in present : CreateStatements[i] = st)
        /\ db_pc = 0
        /\ db_error = FALSE
        /\ db_run = 0
        /\ cfg = Flags(TRUE, TRUE, TRUE, TRUE, TRUE, TRUE, TRUE, TRUE)
        /\ hours_blocks = 1
        /\ employees_df = <<>>
        /\ timeslots_df = {}
        /\ workload_df = {}
        /\ employees_skills_df = {}
        /\ availability_df = {}
        /\ setup_args = MainArguments
        /\ pc = "start"
        /\ model = EmptyModel
        /\ timeslots_vars = {}
        /\ work_e_d = <<>>
        /\ log = {}
        /\ status = "NONE"
        /\ solution = <<>>
        /\ schedule = {}

SpecDb == InitDb /\ [][NextDb]_vars

----------------------------------------------------------------------------
\* Properties of the solutions.

Solved == status \in {"OPTIMAL", "FEASIBLE"}
Employees == 0..num_employees - 1
Days == 0..num_days - 1
Hours == 0..hours_blocks - 1

WorkedSet(e, d) == {h \in Hours : Value(Shift(e, d, h)) = 1}
HoursOnDay(e, d) == Cardinality(WorkedSet(e, d))
RECURSIVE HoursInWeek(_, _)
HoursInWeek(e, d) == IF d = num_days THEN 0 ELSE HoursOnDay(e, d) + HoursInWeek(e, d + 1)

\* C1: with the work-indicator group enabled, in every solution works[e][d] = 1
\* exactly when some shift[e,d,h] is 1, for every employee e and day d.
C1_WorkIndicatorIff ==
    (Solved /\ cfg.ENABLE_WORK_INDICATOR) =>
        \A e \in Employees, d \in Days :
            Value(work_e_d[e][d]) = 1 <=> WorkedSet(e, d) # {}

C1_Witness ==
    /\ Solved /\ cfg.ENABLE_WORK_INDICATOR /\ pc = "done"
    /\ \E e \in Employees, d1, d2 \in Days :
          /\ Value(work_e_d[e][d1]) = 1 /\ WorkedSet(e, d1) # {}
          /\ Value(work_e_d[e][d2]) = 0 /\ WorkedSet(e, d2) = {}

\* C2: with the transition group enabled, in every solution the worked hours of
\* every (e, d) are empty or one run of consecutive hours.
Contiguous(S) == \A a, b \in S : \A h \in a..b : h \in S

C2_SingleBlock ==
    (Solved /\ cfg.ENABLE_TRANSITION) =>
        \A e \in Employees, d \in Days : Contiguous(WorkedSet(e, d))

\* C3: with the hours group enabled, in every solution every employee's hours
\* over the horizon lie within the weekly bounds of the employee's row, and the
\* hours of every day within its daily bounds.
C3_HourBounds ==
    (Solved /\ cfg.ENABLE_HOURS) =>
        \A e \in Employees :
            /\ HoursInWeek(e, 0) >= employees_df[e + 1].WeeklyMinHours
            /\ HoursInWeek(e, 0) <= employees_df[e + 1].WeeklyMaxHours
            /\ \A d \in Days :
                  /\ HoursOnDay(e, d) >= employees_df[e + 1].DailyMinHours
                  /\ HoursOnDay(e, d) <= employees_df[e + 1].DailyMaxHours

C3_Witness ==
    /\ Solved /\ cfg.ENABLE_HOURS /\ pc = "done"
    /\ num_employees = 2 /\ num_days >= 2
    /\ employees_df[1].DailyMinHours = 1
    /\ employees_df[2].DailyMaxHours = 1 /\ employees_df[2].WeeklyMinHours = 1
    /\ HoursInWeek(0, 0) = 2
    /\ HoursInWeek(1, 0) = 1

\* C4: with the consecutive-days-off group enabled, in every solution every
\* employee has an adjacent day pair (d, d+1) with no worked hour on either day.
C4_TwoDaysOff ==
    (Solved /\ cfg.ENABLE_CONSECUTIVE_DAYS_OFF) =>
        \A e \in Employees :
            \E d \in 0..num_days - 2 : WorkedSet(e, d) = {} /\ WorkedSet(e, d + 1) = {}

C4_Witness ==
    /\ Solved /\ cfg.ENABLE_CONSECUTIVE_DAYS_OFF /\ pc = "done"
    /\ num_days = 3
    /\ \E e \in Employees :
          WorkedSet(e, 0) # {} /\ WorkedSet(e, 1) = {} /\ WorkedSet(e, 2) = {}

----------------------------------------------------------------------------
\* Properties stated on the tables' own identifiers.

\* The grid rows (0-based positions in Employees) of the employee with this ID.
RowsOf(id) == {i - 1 : i \in {j \in 1..num_employees : employees_df[j].EmployeeID = id}}

\* The employee with this EmployeeID works at the (day, hour) of this timeslot.
AssignedAt(id, ts) ==
    \E e \in RowsOf(id), r \in timeslots_df :
        /\ r.TimeslotID = ts
        /\ <<e, r.Day.val, r.Hour>> \in GridKeys
        /\ Value(Shift(e, r.Day.val, r.Hour)) = 1

EligibleIDs(skill) == {x.EmployeeID : x \in {y \in employees_skills_df : y.SkillID = skill}}
ManagerIDs == {employees_df[i].EmployeeID : i \in {j \in 1..num_employees : employees_df[j].RoleID = 1}}
AssignedEligible(r) == {id \in EligibleIDs(r.SkillID) : AssignedAt(id, r.TimeslotID)}

\* C5: with the workload group enabled, every solution assigns at least
\* MinAmount eligible employees at the (day, hour) of every requirement.
C5_MinimumCovered ==
    (Solved /\ cfg.ENABLE_WORKLOAD) =>
        \A r \in workload_df : Cardinality(AssignedEligible(r)) >= r.MinAmount

\* C6: with the workload group enabled, no solution assigns more than
\* OptAmount eligible employees at the (day, hour) of a requirement.
C6_OptimalIsCap ==
    (Solved /\ cfg.ENABLE_WORKLOAD) =>
        \A r \in workload_df : Cardinality(AssignedEligible(r)) <= r.OptAmount

\* Every timeslot of this day is listed in Availability_Preferences for the ID.
FullyListed(id, d) ==
    \A t \in timeslots_df :
        (~t.Day.text /\ t.Day.val = d) =>
            \E r \in availability_df : r.EmployeeID = id /\ r.TimeslotID = t.TimeslotID

\* C7: with the availability group enabled, in every solution an employee
\* listed in Availability_Preferences for a timeslot does not work at that
\* timeslot's (day, hour), and has works[e,d] = 0 on a day listed entirely.
C7_ListedNotAssigned ==
    (Solved /\ cfg.ENABLE_AVAILABILITY) =>
        /\ \A r \in availability_df : ~AssignedAt(r.EmployeeID, r.TimeslotID)
        /\ \A r \in availability_df, t \in timeslots_df :
              (/\ cfg.ENABLE_WORK_INDICATOR /\ ~t.Day.text /\ t.TimeslotID = r.TimeslotID
               /\ FullyListed(r.EmployeeID, t.Day.val)) =>
                  \A e \in RowsOf(r.EmployeeID) :
                      e \in DOMAIN work_e_d /\ t.Day.val \in DOMAIN work_e_d[e]
                          => Value(work_e_d[e][t.Day.val]) = 0

\* C8: with the workload and manager groups enabled, every solution has a
\* manager-role employee at the (day, hour) of every timeslot that has a
\* requirement with MinAmount > 0.
C8_ManagerPresent ==
    (Solved /\ cfg.ENABLE_WORKLOAD /\ cfg.ENABLE_MANAGER) =>
        \A r \in workload_df :
            r.MinAmount > 0 => \E id \in ManagerIDs : AssignedAt(id, r.TimeslotID)

\* A requirement with a positive minimum for a skill nobody has.
Uncoverable(r) == r.MinAmount > 0 /\ EligibleIDs(r.SkillID) = {}
ErrorRaised == pc = "except" \/ <<"error", "solver_setup", 0, 0>> \in log
SolverInvoked == pc = "solved" \/ status # "NONE"

\* C9 as stated: whenever some requirement has MinAmount > 0 for a skill with
\* no eligible employee, assembly raises and the solver is never invoked.
C9_UncoverableAlwaysRaises ==
    (\E r \in workload_df : Uncoverable(r)) =>
        /\ ~SolverInvoked /\ pc # "solve"
        /\ (pc = "done" => ErrorRaised)

\* C9 amended: the same, for a requirement the enabled workload group visits
\* (its TimeslotID is in 1..num_timeslots and has a row in Timeslot).
Visited(r) == r.TimeslotID \in 1..num_timeslots /\ TimeslotFound(r.TimeslotID)

C9_VisitedUncoverableRaises ==
    (cfg.ENABLE_WORKLOAD /\ \E r \in workload_df : Uncoverable(r) /\ Visited(r)) =>
        /\ ~SolverInvoked /\ pc # "solve"
        /\ (pc = "done" => ErrorRaised)

C9_Witness ==
    /\ cfg.ENABLE_WORKLOAD /\ \E r \in workload_df : Uncoverable(r) /\ Visited(r)
    /\ pc = "done" /\ ErrorRaised /\ status = "NONE"
    /\ \E r \in workload_df :
          <<"warning", "no_employees_with_skill", r.SkillID, r.TimeslotID>> \in log

\* The coverage constraint of a requirement: sum of the shift variables of
\* eligible employees at the timeslot's (day, hour) >= MinAmount.
IsCoverageOf(c, r) ==
    /\ c.op = ">=" /\ c.rhs = r.MinAmount /\ c.lit = <<>> /\ c.terms # <<>>
    /\ \E t \in timeslots_df :
          /\ t.TimeslotID = r.TimeslotID
          /\ \A i \in 1..Len(c.terms) :
                \E id \in EligibleIDs(r.SkillID) :
                    c.terms[i] = <<1, Shift(id, t.Day.val, t.Hour)>>

\* C10: when add_workload_constraints has finished, every requirement with
\* MinAmount > 0 has its coverage constraint in the model, or an error was raised.
C10_NeverDroppedSilently ==
    (cfg.ENABLE_WORKLOAD /\ pc \in {"solve", "solved", "done", "except"}) =>
        \/ ErrorRaised
        \/ \A r \in workload_df :
              r.MinAmount > 0 => \E k \in 1..Len(model.cts) : IsCoverageOf(model.cts[k], r)

----------------------------------------------------------------------------
\* Properties of the build and of the run.

SetupCompleted == pc \in {"solve", "solved", "done"} /\ ~ErrorRaised
WorkVariables == {v \in Range(model.vars) : v[1] = "work"}
ShiftVariables == {v \in Range(model.vars) : v[1] = "shift"}

\* C11: whatever the toggles, setup_constraints raises no error, and when it
\* has completed the allocated shift and work-indicator variables are those
\* of the build with every toggle enabled: one shift variable per (e, d, h)
\* and one work-indicator variable per (e, d).
C11_TogglesKeepVariables ==
    /\ ~ErrorRaised
    /\ SetupCompleted =>
          /\ ShiftVariables = {Shift(e, d, h) : e \in Employees, d \in Days, h \in Hours}
          /\ WorkVariables = {Work(e, d) : e \in Employees, d \in Days}

\* main has logged "Solution found" and walked the grid.
ExtractionPerformed == \E r \in log : r[1] = "info" /\ r[2] = "solution_found"
FailureReported == <<"error", "no_solution", status, 0>> \in log

\* C12: once main has processed the status returned by the solve call, the
\* schedule was extracted exactly when the status is OPTIMAL or FEASIBLE; for
\* every other status no schedule entry exists and a failure was reported.
C12_ExtractionIffSuccess ==
    (pc = "done" /\ status # "NONE") =>
        /\ ExtractionPerformed <=> status \in {"OPTIMAL", "FEASIBLE"}
        /\ status \notin {"OPTIMAL", "FEASIBLE"} => schedule = {} /\ FailureReported /\ solution = <<>>
        /\ status \in {"OPTIMAL", "FEASIBLE"} => ~FailureReported

C12_Witness ==
    /\ pc = "done" /\ status = "FEASIBLE" /\ ExtractionPerformed /\ schedule # {}

EnabledGroups == {g \in DOMAIN cfg : cfg[g]}

\* C13: an INFEASIBLE status yields a report that carries the set of enabled
\* constraint groups, and any other non-success status yields an
\* "inconclusive" record, different from the INFEASIBLE report.
C13_InfeasibleReportCarriesGroups ==
    (pc = "done" /\ status \notin {"NONE", "OPTIMAL", "FEASIBLE"}) =>
        IF status = "INFEASIBLE"
        THEN \E r \in log : r[2] = "no_solution" /\ r[4] = EnabledGroups
        ELSE \E r \in log : r[2] = "inconclusive"

\* C14: on a successful solve the schedule has, for every (employee, day)
\* with a worked hour, exactly one entry listing the hours h with
\* shift[e,d,h] = 1 in strictly ascending order, and no other entry.
C14_ScheduleMatchesSolution ==
    (pc = "done" /\ Solved) =>
        /\ \A x \in schedule : x[1] \in Employees /\ x[2] \in Days
        /\ \A e \in Employees, d \in Days :
              LET entries == {x \in schedule : x[1] = e /\ x[2] = d}
              IN IF WorkedSet(e, d) = {} THEN entries = {}
                 ELSE \E x \in entries :
                        /\ entries = {x}
                        /\ Range(x[3]) = WorkedSet(e, d)
                        /\ \A i \in 1..Len(x[3]) - 1 : x[3][i] < x[3][i + 1]

C14_Witness ==
    /\ pc = "done" /\ Solved
    /\ \E x \in schedule : Len(x[3]) >= 2 /\ Len(x[3]) < hours_blocks
    /\ \E e \in Employees, d \in Days : WorkedSet(e, d) = {}

\* C15: from variable creation on, the keys of the shift-variable grid are
\* exactly the triples (e, d, h) within the employee, day and hour ranges,
\* each with exactly one variable in the model and no shift variable outside
\* them, and distinct triples have distinct names.
C15_GridExact ==
    pc # "start" =>
        /\ timeslots_vars = {<<e, d, h>> : e \in Employees, d \in Days, h \in Hours}
        /\ \A k \in timeslots_vars :
              Cardinality({i \in DOMAIN model.vars : model.vars[i] = Shift(k[1], k[2], k[3])}) = 1
        /\ ShiftVariables \subseteq {Shift(k[1], k[2], k[3]) : k \in timeslots_vars}
        /\ \A k1, k2 \in timeslots_vars :
              ShiftName(k1[1], k1[2], k1[3]) = ShiftName(k2[1], k2[2], k2[3]) => k1 = k2

C15_Witness ==
    /\ pc = "done" /\ Cardinality(timeslots_vars) = MaxCells
    /\ num_employees > 1 /\ hours_blocks > 1 /\ Len(model.vars) > MaxCells

\* The position of a constraint's group in the order of setup_constraints,
\* read off the variables the constraint mentions.  On a grid of at least two
\* hours, an hour bound sums the shifts of several hours and a workload
\* constraint those of one (day, hour).
GroupRank(c) ==
    LET kinds == {c.terms[i][2][1] : i \in 1..Len(c.terms)}
        slots == {<<c.terms[i][2][3], c.terms[i][2][4]>> : i \in 1..Len(c.terms)}
    IN IF c.lit # <<>>
       THEN CASE c.lit[1][1] = "work" -> 2
              [] c.lit[1][1] = "transition" -> 3
              [] c.lit[1][1] = "both_off" -> 4
       ELSE IF kinds = {"transition"} THEN 3
       ELSE IF kinds \subseteq {"both_off"} THEN 4
       ELSE IF Cardinality(slots) > 1 THEN 5
       ELSE 6

Count(flag, n) == IF flag THEN n ELSE 0

\* The number of constraints the workload group adds for one timeslot row,
\* counted from the tables.
WorkloadCountAt(t) ==
    Cardinality({r \in workload_df :
                    /\ r.TimeslotID = t.TimeslotID
                    /\ \E id \in EligibleIDs(r.SkillID) : HasKey(id, t.Day, t.Hour)})
    + Count(cfg.ENABLE_ONE_SKILL_PER_TIMESLOT /\ workload_df # {},
            Cardinality({i \in 1..num_employees :
                            HasKey(employees_df[i].EmployeeID, t.Day, t.Hour)}))
    + Count(cfg.ENABLE_MANAGER /\ \E id \in ManagerIDs : HasKey(id, t.Day, t.Hour),
            Cardinality({sk \in {r.SkillID : r \in workload_df} :
                            \E r \in workload_df :
                                r.TimeslotID = t.TimeslotID /\ r.SkillID = sk /\ r.MinAmount > 0}))

RECURSIVE WorkloadCount(_)
WorkloadCount(ts) ==
    IF ts > num_timeslots THEN 0
    ELSE (IF TimeslotFound(ts) THEN WorkloadCountAt(TimeslotRow(ts)) ELSE 0) + WorkloadCount(ts + 1)

\* C16: a completed build has a number of variables and a number of
\* constraints fixed by the tables and the toggles alone, and its constraints
\* come group after group in the order (availability,) work indicator,
\* transition, consecutive days off, hours, workload.
C16_SameCountsSameOrder ==
    SetupCompleted =>
        LET E == num_employees
            D == num_days
            H == hours_blocks
        IN /\ Len(model.vars) =
                E * D * H + Count(cfg.ENABLE_WORK_INDICATOR, E * D)
                + Count(cfg.ENABLE_TRANSITION, E * D * (H - 1))
                + Count(cfg.ENABLE_CONSECUTIVE_DAYS_OFF, E * (D - 1))
           /\ Len(model.cts) =
                Count(cfg.ENABLE_WORK_INDICATOR, 2 * E * D)
                + Count(cfg.ENABLE_TRANSITION, E * D * (2 * (H - 1) + 1))
                + Count(cfg.ENABLE_CONSECUTIVE_DAYS_OFF, E * (2 * (D - 1) + 1))
                + Count(cfg.ENABLE_HOURS, E * (2 + 2 * D))
                + Count(cfg.ENABLE_WORKLOAD, WorkloadCount(1))
           /\ H >= 2 =>
                \A i, j \in 1..Len(model.cts) :
                    i < j => GroupRank(model.cts[i]) <= GroupRank(model.cts[j])

C16_Witness ==
    /\ SetupCompleted /\ pc = "solve"
    /\ cfg.ENABLE_WORK_INDICATOR /\ cfg.ENABLE_TRANSITION
    /\ cfg.ENABLE_CONSECUTIVE_DAYS_OFF /\ cfg.ENABLE_HOURS /\ cfg.ENABLE_WORKLOAD
    /\ num_days >= 2 /\ hours_blocks >= 2
    /\ \E k \in 1..Len(model.cts) : GroupRank(model.cts[k]) = 6

ScenarioA ==
    /\ num_employees = 3 /\ num_days = 1 /\ hours_blocks = 8 /\ num_timeslots = 8
    /\ EnabledGroups = DOMAIN cfg
    /\ workload_df = {Requirement(ts, 1, <<1, 1>>) : ts \in 1..8}
    /\ \A i \in 1..3 : employees_df[i].EmployeeID \in EligibleIDs(1)

\* C17: on the instance of three employees eligible for the only skill, one
\* day of eight hourly slots and a requirement (1, 1) per slot, with every
\* group enabled, the solver does not find the model infeasible, and every
\* solution assigns exactly one employee to each of the eight slots.
C17_ScenarioACovered ==
    (ScenarioA /\ status # "NONE") =>
        /\ status # "INFEASIBLE"
        /\ Solved => \A r \in workload_df : Cardinality(AssignedEligible(r)) = 1

MissingTimeslots == {ts \in 1..num_timeslots : ~TimeslotFound(ts)}

\* The build over the timeslot IDs of 1..num_timeslots that have a row, in
\* ascending order: the range with the missing IDs taken out.
RECURSIVE FoundOnly(_, _)
FoundOnly(acc, todo) ==
    IF acc.raised \/ todo = {} THEN acc
    ELSE FoundOnly(TimeslotStep(acc, Min(todo), cfg.ENABLE_ONE_SKILL_PER_TIMESLOT,
                                cfg.ENABLE_MANAGER),
                   todo \ {Min(todo)})

WorkloadOnly ==
    /\ cfg.ENABLE_WORKLOAD /\ ~cfg.ENABLE_WORK_INDICATOR /\ ~cfg.ENABLE_TRANSITION
    /\ ~cfg.ENABLE_CONSECUTIVE_DAYS_OFF /\ ~cfg.ENABLE_HOURS /\ ~cfg.ENABLE_AVAILABILITY

\* C18: when a timeslot ID of 1..num_timeslots has no row in Timeslot, once
\* add_workload_constraints is over the model holds exactly the constraints
\* of the build over the other IDs, an exception has escaped only if that
\* build raises one, and otherwise an error is logged for every missing ID.
C18_MissingTimeslotSkipped ==
    (WorkloadOnly /\ MissingTimeslots # {} /\ pc \in {"solve", "solved", "done", "except"}) =>
        LET others == FoundOnly([cts |-> <<>>, log |-> {}, raised |-> FALSE],
                                (1..num_timeslots) \ MissingTimeslots)
        IN /\ model.cts = others.cts
           /\ ErrorRaised <=> others.raised
           /\ ~others.raised =>
                 \A ts \in MissingTimeslots : <<"error", "timeslot_not_found", ts, 0>> \in log

C18_Witness ==
    /\ WorkloadOnly /\ MissingTimeslots # {} /\ pc = "solve"
    /\ Len(model.cts) > 0
    /\ \E ts \in MissingTimeslots : <<"error", "timeslot_not_found", ts, 0>> \in log

\* add_availability_constraints has caught an exception.
AvailabilityErrorOccurred == <<"error", "availability", 0, 0>> \in log

\* C19: once an exception has occurred inside add_availability_constraints,
\* the run is in main's error handling and the solver is never invoked.
C19_ErrorsNeverSwallowed ==
    AvailabilityErrorOccurred => pc \in {"except", "done"} /\ ErrorRaised /\ ~SolverInvoked

\* C20: in one run the solver is invoked at most once, whatever status it
\* returns, and from the solve call on nothing is added to the model.
C20_SingleSolveFrozenModel ==
    [][/\ pc \in {"solve", "solved"} \/ status # "NONE" => model' = model
       /\ status # "NONE" =>
             /\ status' = status /\ solution' = solution
             /\ pc' \notin {"solve", "solved"}]_vars

C20_Witness ==
    /\ pc = "done" /\ status \in {"INFEASIBLE", "UNKNOWN"} /\ FailureReported
    /\ Len(model.cts) > 0

\* C21: whenever the solver has been invoked, it was given a bounded time or
\* work limit, and the configuration defines the name the limit is read from.
C21_BoundedBudget ==
    SolverInvoked =>
        /\ \E limit \in DOMAIN SolverParameters : SolverParameters[limit] # "unbounded"
        /\ \E name \in ConfigNames : name \notin DOMAIN cfg \cup
              {"DATABASE_PATH", "LOG_LEVEL", "LOG_FORMAT", "HOURS_BLOCKS"}

\* What tests/test_create_tables.py expects of the schema.
ExpectedTables ==
    {"Roles", "Status", "Employees", "Codes", "Timeslot", "Availability_Preferences",
     "Skills", "EmployeesSkills", "Store", "Workload"}

ExpectedPrimaryKeys ==
    [t \in ExpectedTables |->
        CASE t = "Roles" -> {"RoleID"}
          [] t = "Status" -> {"StatusID"}
          [] t = "Employees" -> {"EmployeeID"}
          [] t = "Codes" -> {"CodeID"}
          [] t = "Timeslot" -> {"TimeslotID"}
          [] t = "Availability_Preferences" -> {"AvailabilitePreferencesID"}
          [] t = "Skills" -> {"SkillID"}
          [] t = "EmployeesSkills" -> {"SkillID", "EmployeeID"}
          [] t = "Store" -> {"StoreID"}
          [] t = "Workload" -> {"UniqueID"}]

ExpectedForeignKeys ==
    [t \in ExpectedTables |->
        CASE t = "Employees" -> {<<"RoleID", "Roles">>, <<"StatusID", "Status">>}
          [] t = "Timeslot" -> {<<"CodeID", "Codes">>}
          [] t = "Availability_Preferences" ->
                {<<"TimeslotID", "Timeslot">>, <<"EmployeeID", "Employees">>}
          [] t = "EmployeesSkills" -> {<<"SkillID", "Skills">>, <<"EmployeeID", "Employees">>}
          [] t = "Workload" ->
                {<<"TimeslotID", "Timeslot">>, <<"SkillID", "Skills">>, <<"StoreID", "Store">>}
          [] OTHER -> {}]

\* C22: create_tables never ends in an error, and once a run of it has
\* completed (and all through a second run) the database holds exactly the
\* ten tables, each once, with the expected primary key and foreign keys,
\* every foreign key referencing a table created earlier.
C22_SchemaCreatedOnce ==
    /\ ~db_error
    /\ db_run >= 1 =>
          /\ TableNames(db_schema) = ExpectedTables
          /\ Len(db_schema) = Cardinality(ExpectedTables)
          /\ \A i \in 1..Len(db_schema) :
                /\ db_schema[i].pk = ExpectedPrimaryKeys[db_schema[i].name]
                /\ db_schema[i].fks = ExpectedForeignKeys[db_schema[i].name]
                /\ \A fk \in db_schema[i].fks :
                      \E j \in 1..i - 1 : db_schema[j].name = fk[2]

C22_Witness ==
    /\ db_run = MaxRuns /\ db_pc = 0 /\ pc = "start"
    /\ db_schema = CreateStatements

\* The model as it stands before the solve call with the workload group's
\* constraints replaced by those built with the one-skill group disabled.
WithoutOneSkill ==
    LET with == WorkloadConstraints(TRUE, cfg.ENABLE_MANAGER).cts
        without == WorkloadConstraints(FALSE, cfg.ENABLE_MANAGER).cts
    IN [model EXCEPT !.cts = SubSeq(model.cts, 1, Len(model.cts) - Len(with)) \o without]

\* C23: when the workload group was built with the one-skill-per-timeslot
\* group enabled, the model handed to the solver has the same satisfying
\* assignments as the model built with that group disabled.
C23_OneSkillNoOp ==
    (pc = "solve" /\ cfg.ENABLE_WORKLOAD /\ cfg.ENABLE_ONE_SKILL_PER_TIMESLOT) =>
        SatAssignments(model) = SatAssignments(WithoutOneSkill)

\* C24: in every solution of a model with the consecutive-days-off group,
\* both_off[e,d] is 1 exactly when the work indicators of day d and day d+1
\* are both 0.
C24_BothOffIff ==
    (Solved /\ cfg.ENABLE_CONSECUTIVE_DAYS_OFF) =>
        \A e \in Employees : \A d \in 0..num_days - 2 :
            solution[BothOff(e, d)] = 1 <=>
                (solution[Work(e, d)] = 0 /\ solution[Work(e, d + 1)] = 0)

\* The Scenario D instance, which its two variants share but for the
\* consecutive-days-off flag.
ScenarioD ==
    /\ num_employees = 1 /\ num_days = 2 /\ hours_blocks = 2
    /\ EnabledGroups \cup {"ENABLE_CONSECUTIVE_DAYS_OFF"} = DOMAIN cfg
    /\ employees_df[1].DailyMinHours = 1 /\ employees_df[1].WeeklyMinHours = 2
    /\ workload_df = {Requirement(1, 1, <<1, 1>>), Requirement(3, 1, <<1, 1>>)}
    /\ employees_df[1].EmployeeID \in EligibleIDs(1)

EveryDayWorked(sol) ==
    \A d \in Days : \E e \in Employees : \E h \in Hours : sol[Shift(e, d, h)] = 1

\* C25: on the Scenario D instance the model handed to the solver has no
\* satisfying assignment when the consecutive-days-off group is enabled and,
\* when only that group is disabled, has one in which every day has an
\* employee with a worked hour; the solver never reports a solution in the
\* first case and never reports infeasibility in the second.
C25_ScenarioD ==
    ScenarioD =>
        /\ (pc = "solve" /\ cfg.ENABLE_CONSECUTIVE_DAYS_OFF) => SatAssignments(model) = {}
        /\ (pc = "solve" /\ ~cfg.ENABLE_CONSECUTIVE_DAYS_OFF) =>
              \E sol \in SatAssignments(model) : EveryDayWorked(sol)
        /\ cfg.ENABLE_CONSECUTIVE_DAYS_OFF => ~Solved
        /\ ~cfg.ENABLE_CONSECUTIVE_DAYS_OFF => status # "INFEASIBLE"

C25_Witness ==
    /\ ScenarioD /\ ~cfg.ENABLE_CONSECUTIVE_DAYS_OFF
    /\ pc = "done" /\ Solved
    /\ \A d \in Days : \E e \in Employees : HoursOnDay(e, d) > 0

\* C26: whenever main() has started, every name solver.py imports from
\* app.config, the three flags ENABLE_AVAILABILITY, ENABLE_MANAGER and
\* ENABLE_ONE_SKILL_PER_TIMESLOT among them, is defined in config.py.
C26_ImportsDefined ==
    pc # "start" =>
        /\ {"ENABLE_AVAILABILITY", "ENABLE_MANAGER", "ENABLE_ONE_SKILL_PER_TIMESLOT"}
              \subseteq ImportedNames
        /\ ImportedNames \subseteq ConfigNames

\* The constraints the workload step appends to the model.
AddedByWorkload == SubSeq(model'.cts, Len(model.cts) + 1, Len(model'.cts))

SomeDailyMinimum == \E i \in 1..num_employees : employees_df[i].DailyMinHours >= 1

\* C28: with the work-indicator, consecutive-days-off and hours groups all
\* enabled and some employee having DailyMinHours >= 1, the model handed to
\* the solver has no satisfying assignment and the solver never reports a
\* solution.
C28_DailyMinimumInfeasible ==
    (/\ cfg.ENABLE_WORK_INDICATOR /\ cfg.ENABLE_CONSECUTIVE_DAYS_OFF /\ cfg.ENABLE_HOURS
     /\ SomeDailyMinimum) =>
        /\ pc = "solve" => SatAssignments(model) = {}
        /\ ~Solved

C28_Witness ==
    /\ cfg.ENABLE_WORK_INDICATOR /\ cfg.ENABLE_CONSECUTIVE_DAYS_OFF /\ cfg.ENABLE_HOURS
    /\ SomeDailyMinimum
    /\ num_days = 3
    /\ pc = "done" /\ status = "INFEASIBLE"

\* The shift variables whose sum add_hour_constraints bounds with the daily
\* hours of the Employees row at position i.
BoundedByRow(i, d) ==
    {DailyBounds(i - 1, d)[1].terms[k][2] : k \in 1..Len(DailyBounds(i - 1, d)[1].terms)}

\* C29: with the EmployeeIDs 1..N of the populated data, on every (day, hour)
\* of the grid the workload group finds for the EmployeeID of every Employees
\* row exactly one shift variable, and it is one that the hour group bounds
\* with that row's hours.
C29_SameEmployeeEverywhere ==
    (/\ pc = "solve" /\ cfg.ENABLE_WORKLOAD
     /\ \A i \in 1..num_employees : employees_df[i].EmployeeID = i) =>
        \A i \in 1..num_employees : \A d \in Days : \A h \in Hours :
            LET used == AssignedVars(<<employees_df[i].EmployeeID>>,
                                     [val |-> d, text |-> FALSE], h)
            IN Len(used) = 1 /\ used[1] \in BoundedByRow(i, d)

====
